---- MODULE Spec2Model ----
(***************************************************************************)
(* pcc-lite-verifier: src/verifier.py (verify and its helpers) and         *)
(* src/run_vectors.py (the batch runner and ledger writer).                *)
(*                                                                         *)
(* JSON values are tagged records, so that Python's isinstance tests and   *)
(* the difference between an absent key and a null value are kept.         *)
(* hashlib.sha256 is modelled as collision free: a digest is the tagged    *)
(* content it was computed from.                                           *)
(***************************************************************************)
EXTENDS Integers, Sequences, FiniteSets, TLC

VARIABLES
    env,        \* verify: the envelope handed to verify
    anchors,    \* the anchor configuration (_load_anchors)
    result,     \* verify: what the call produced (a return or a raise)
    vpc,        \* verify: position of the caller ("loaded", "filled", "verified")
    vectors,    \* main: VEC_DIR, file id -> parsed envelope
    out,        \* main: OUT_DIR, path -> lines of the file (domain = existing files)
    summary,    \* main: the summary dict
    files,      \* main: sorted list of file ids
    idx,        \* main: number of loop iterations finished
    pc,         \* main: position ("start", "loop", "done", "crashed")
    now,        \* int(time.time())
    prevOut,    \* history: OUT_DIR as the previous run of main left it
    runs,       \* history: number of runs of main started
    tcc,        \* topology: the certificate under the topology gate
    graph,      \* topology: [adj, nodeset] of _build_graph
    kahn,       \* topology: locals of _is_dag  [indeg, queue, seen]
    dfs,        \* topology: locals of _reachable [stack, seen, ret]
    tpc         \* topology: position

verVars  == <<env, result, vpc>>
mainVars == <<vectors, out, summary, files, idx, pc, now, prevOut, runs>>
topoVars == <<tcc, graph, kahn, dfs, tpc>>
vars     == <<env, anchors, result, vpc, vectors, out, summary, files, idx, pc,
              now, prevOut, runs, tcc, graph, kahn, dfs, tpc>>

----------------------------------------------------------------------------
(* JSON values as json.load yields them *)

JNull    == [t |-> "null"]
JStr(s)  == [t |-> "str", s |-> s]
JInt(i)  == [t |-> "int", i |-> i]
JList(l) == [t |-> "list", l |-> l]
JObj(o)  == [t |-> "dict", o |-> o]

\* Marks a key left out when a dict is built; never a value of a dict.
ABSENT == [t |-> "absent"]

MkDict(r) == JObj([k \in {kk \in DOMAIN r : r[kk] # ABSENT} |-> r[k]])

IsStr(v)  == v.t = "str"
IsInt(v)  == v.t = "int"
IsList(v) == v.t = "list"
IsDict(v) == v.t = "dict"

\* isinstance(v, str) and v
NonEmptyStr(v) == IsStr(v) /\ v # JStr("")

\* hash(v) raises TypeError for list and dict
Unhashable(v) == IsList(v) \/ IsDict(v)

HasKey(d, k) == k \in DOMAIN d.o
\* d.get(k)
Get(d, k) == IF HasKey(d, k) THEN d.o[k] ELSE JNull
\* d.get(k, default)
GetDefault(d, k, default) == IF HasKey(d, k) THEN d.o[k] ELSE default
\* dict(d); d.pop(k, None)
Pop(d, k) == JObj([kk \in DOMAIN d.o \ {k} |-> d.o[kk]])
\* d[k] = v
SetItem(d, k, v) == JObj([kk \in DOMAIN d.o \cup {k} |-> IF kk = k THEN v ELSE d.o[kk]])

\* What a call produced: a returned triple or an exception that escaped.
Ret(ok, reason, debug) == [kind |-> "return", ok |-> ok, reason |-> reason, debug |-> debug]
Raise(exc) == [kind |-> "raise", exc |-> exc]
NoResult == [kind |-> "none"]

----------------------------------------------------------------------------
(* src/verifier.py *)

REASON == ("SCHEMA"   :> "schema_invalid") @@
          ("TOPO"     :> "invalid_tcc_topology") @@
          ("TARGET"   :> "missing_or_invalid_targetref") @@
          ("ANCHOR_C" :> "outdated_or_missing_constitution_anchor") @@
          ("ANCHOR_E" :> "outdated_or_missing_energy_anchor") @@
          ("COVER"    :> "missing_gatevector_coverage") @@
          ("BUDGET"   :> "egl_budget_exceeded") @@
          ("WITNESS"  :> "witness_mismatch")

REQ_GATES_MIN == {"G_TOPO", "G_TARGETREF", "G_ANCHOR_CONST", "G_ANCHOR_ENERGY", "G_BUDGET"}

ALLOWED_ACTIONS == {"FAST", "MID", "HEAVY", "EXTERNAL"}

\* hashlib.sha256(b).hexdigest(): a str, determined by and determining b
sha256_hex(b) == [t |-> "str", h |-> b]

\* json.dumps(obj, sort_keys=True, separators=(",", ":")).encode("utf-8"):
\* a dict is a function of its keys, so key insertion order is already gone
canonical_json_bytes(obj) == [enc |-> "canonical-json", of |-> obj]

compute_witness_hash(env_without_witness) ==
    sha256_hex(canonical_json_bytes(env_without_witness))

\* env[k] / tcc[k] raise (TypeError, KeyError) on a non-dict or an absent key;
\* the except clause turns either into False
basic_schema_ok(e) ==
    /\ IsDict(e)
    /\ \A k \in {"proposal_digest", "action_class", "energy_est_uj", "tcc", "witness_hash"} :
          HasKey(e, k)
    /\ IsDict(e.o["tcc"])
    /\ \A k \in {"root", "receipt", "nodes", "edges"} : HasKey(e.o["tcc"], k)

\* for x in v: a list yields its items; None (and an int) raises TypeError
Iterable(v) == IsList(v)

\* adj.setdefault(k, [])
SetDefault(adj, k) == IF k \in DOMAIN adj THEN adj ELSE adj @@ (k :> <<>>)

\* The first loop of _build_graph over the declared nodes (all of them dicts).
RECURSIVE add_nodes(_, _)
add_nodes(g, ns) ==
    IF ns = <<>> THEN g
    ELSE LET nid == Get(Head(ns), "id")
         IN add_nodes(IF NonEmptyStr(nid)
                        THEN [adj |-> SetDefault(g.adj, nid.s),
                              nodeset |-> g.nodeset \cup {nid.s}]
                        ELSE g,
                      Tail(ns))

\* The second loop of _build_graph over the edges (all of them dicts).
RECURSIVE add_edges(_, _)
add_edges(g, es) ==
    IF es = <<>> THEN g
    ELSE LET a == Get(Head(es), "from")
             b == Get(Head(es), "to")
         IN add_edges(IF NonEmptyStr(a) /\ NonEmptyStr(b)
                        THEN [adj |-> [SetDefault(g.adj, a.s) EXCEPT ![a.s] = Append(@, b.s)],
                              nodeset |-> g.nodeset \cup {a.s, b.s}]
                        ELSE g,
                      Tail(es))

\* n.get("id") / e.get("from") raise AttributeError on an entry that is no dict,
\* and iterating a value that is no list raises TypeError
build_graph_raises(c) ==
    \/ ~Iterable(Get(c, "nodes"))
    \/ \E i \in DOMAIN Get(c, "nodes").l : ~IsDict(Get(c, "nodes").l[i])
    \/ ~Iterable(Get(c, "edges"))
    \/ \E i \in DOMAIN Get(c, "edges").l : ~IsDict(Get(c, "edges").l[i])

\* The exception that escapes _build_graph: the nodes loop runs first
build_graph_exc(c) ==
    IF ~Iterable(Get(c, "nodes")) THEN "TypeError"
    ELSE IF \E i \in DOMAIN Get(c, "nodes").l : ~IsDict(Get(c, "nodes").l[i]) THEN "AttributeError"
    ELSE IF ~Iterable(Get(c, "edges")) THEN "TypeError"
    ELSE "AttributeError"

\* _build_graph when it does not raise: [adj, nodeset]
build_graph(c) ==
    LET g1 == add_nodes([adj |-> <<>>, nodeset |-> {}], Get(c, "nodes").l)
        g2 == add_edges(g1, Get(c, "edges").l)
    IN [adj |-> [n \in g2.nodeset |-> IF n \in DOMAIN g2.adj THEN g2.adj[n] ELSE <<>>],
        nodeset |-> g2.nodeset]

\* Number of occurrences of b in the successor list outs
RECURSIVE count_in(_, _)
count_in(outs, b) ==
    IF outs = <<>> THEN 0
    ELSE (IF Head(outs) = b THEN 1 ELSE 0) + count_in(Tail(outs), b)

RECURSIVE sum_over(_, _, _)
sum_over(adj, keys, b) ==
    IF keys = {} THEN 0
    ELSE LET a == CHOOSE k \in keys : TRUE
         IN count_in(adj[a], b) + sum_over(adj, keys \ {a}, b)

SeqRange(q) == {q[i] : i \in DOMAIN q}

\* indeg with the edges from a node to itself left out
kahn_indeg_no_self_loops(adj, nodes) ==
    LET targets == UNION {SeqRange(adj[a]) : a \in DOMAIN adj}
    IN [n \in nodes \cup targets |-> sum_over(adj, DOMAIN adj \ {n}, n)]

\* indeg after the two initial loops of _is_dag: one count per edge occurrence,
\* a target outside nodes gets an entry of its own
kahn_indeg(adj, nodes) ==
    LET targets == UNION {SeqRange(adj[a]) : a \in DOMAIN adj}
    IN [n \in nodes \cup targets |-> sum_over(adj, DOMAIN adj, n)]

\* adj.get(x, [])
adj_get(adj, x) == IF x \in DOMAIN adj THEN adj[x] ELSE <<>>

\* for y in adj.get(x, []): indeg[y] -= 1; if indeg[y] == 0: queue.append(y)
RECURSIVE kahn_relax(_, _)
kahn_relax(st, outs) ==
    IF outs = <<>> THEN st
    ELSE LET y == Head(outs)
             d == st.indeg[y] - 1
         IN kahn_relax([indeg |-> [st.indeg EXCEPT ![y] = d],
                        queue |-> IF d = 0 THEN Append(st.queue, y) ELSE st.queue,
                        seen  |-> st.seen],
                       Tail(outs))

\* One iteration of "while queue": x = queue.pop(); seen += 1; relax successors
kahn_step(adj, st) ==
    LET x == st.queue[Len(st.queue)]
    IN kahn_relax([indeg |-> st.indeg,
                   queue |-> SubSeq(st.queue, 1, Len(st.queue) - 1),
                   seen  |-> st.seen + 1],
                  adj_get(adj, x))

\* The sequences that list the set S once each: the orders in which a dict
\* built from a set can be iterated
Orders(S) == {q \in [1..Cardinality(S) -> S] : SeqRange(q) = S}

\* locals of _is_dag when the while loop is entered; order is the iteration
\* order of indeg.items() restricted to the entries with d == 0
kahn_init(adj, nodes, order) ==
    [indeg |-> kahn_indeg(adj, nodes), queue |-> order, seen |-> 0]

ZeroIndeg(indeg) == {n \in DOMAIN indeg : indeg[n] = 0}

RECURSIVE kahn_run(_, _)
kahn_run(adj, st) ==
    IF st.queue = <<>> THEN st ELSE kahn_run(adj, kahn_step(adj, st))

\* return seen == len(indeg)
kahn_result(st) == st.seen = Cardinality(DOMAIN st.indeg)

\* _is_dag as a function: the answer does not depend on the iteration order
\* (TopologyVerdict below checks this on the step-wise run, KahnInit
\* drawing every order), so one order is taken
is_dag(adj, nodes) ==
    LET indeg == kahn_indeg(adj, nodes)
        order == CHOOSE q \in Orders(ZeroIndeg(indeg)) : TRUE
    IN kahn_result(kahn_run(adj, kahn_init(adj, nodes, order)))

\* One iteration of the while loop of _reachable; ret is "run" while looping
dfs_step(adj, sink, st) ==
    LET x    == st.stack[Len(st.stack)]
        rest == SubSeq(st.stack, 1, Len(st.stack) - 1)
    IN IF x \in st.seen THEN [stack |-> rest, seen |-> st.seen, ret |-> "run"]
       ELSE IF x = sink THEN [stack |-> rest, seen |-> st.seen \cup {x}, ret |-> "True"]
       ELSE [stack |-> rest \o adj_get(adj, x), seen |-> st.seen \cup {x}, ret |-> "run"]

dfs_init(root) == [stack |-> <<root>>, seen |-> {}, ret |-> "run"]

\* the loop ends by "return True" or by the stack running empty ("return False")
dfs_done(st) == st.ret = "True" \/ st.stack = <<>>

RECURSIVE dfs_run(_, _, _)
dfs_run(adj, sink, st) ==
    IF dfs_done(st) THEN st ELSE dfs_run(adj, sink, dfs_step(adj, sink, st))

reachable(adj, root, sink) == dfs_run(adj, sink, dfs_init(root)).ret = "True"

\* [n for n in tcc.get("nodes", []) if n.get("type") == node_type]
find_nodes_by_type(c, node_type) ==
    SelectSeq(Get(c, "nodes").l, LAMBDA n : Get(n, "type") = JStr(node_type))

\* A gate that did not return: the chain goes on to the next one.
PASS == [kind |-> "pass"]

Fail(code, stage, detail) == Ret(FALSE, REASON[code], [stage |-> stage, detail |-> detail])

\* verify, lines 133-152
schema_gate(e) ==
    IF ~basic_schema_ok(e) THEN Ret(FALSE, REASON["SCHEMA"], [stage |-> "schema"])
    ELSE LET proposal_digest == Get(e, "proposal_digest")
             action_class    == Get(e, "action_class")
             energy_est_uj   == Get(e, "energy_est_uj")
         IN IF ~IsStr(proposal_digest) \/ proposal_digest = JStr("")
              THEN Fail("SCHEMA", "schema", "invalid proposal_digest")
            ELSE IF Unhashable(action_class)
              THEN Raise("TypeError")       \* "x not in set" hashes x
            ELSE IF ~(IsStr(action_class) /\ action_class.s \in ALLOWED_ACTIONS)
              THEN Fail("SCHEMA", "schema", "invalid action_class")
            ELSE IF ~IsInt(energy_est_uj) \/ energy_est_uj.i < 0
              THEN Fail("SCHEMA", "schema", "invalid energy_est_uj")
            ELSE IF ~IsDict(Get(e, "tcc"))
              THEN Fail("SCHEMA", "schema", "tcc not dict")
            ELSE PASS

\* verify, lines 154-166
topology_gate(c) ==
    IF build_graph_raises(c) THEN Raise(build_graph_exc(c))
    ELSE LET g       == build_graph(c)
             root    == Get(c, "root")
             receipt == Get(c, "receipt")
         IN IF ~IsStr(root) \/ ~IsStr(receipt) \/ root = JStr("") \/ receipt = JStr("")
              THEN Fail("TOPO", "topology", "missing root/receipt")
            ELSE IF ~is_dag(g.adj, g.nodeset)
              THEN Fail("TOPO", "topology", "not a DAG")
            ELSE IF ~reachable(g.adj, root.s, receipt.s)
              THEN Fail("TOPO", "topology", "receipt not reachable from root")
            ELSE PASS

\* n.get("payload", {}) of a node
payload_of(n) == GetDefault(n, "payload", JObj(<<>>))

\* verify, lines 168-175
targetref_gate(c, proposal_digest) ==
    LET tnodes == find_nodes_by_type(c, "TargetRef")
    IN IF Len(tnodes) # 1
         THEN Fail("TARGET", "targetref", <<"TargetRef count=", Len(tnodes)>>)
       ELSE IF ~IsDict(payload_of(tnodes[1]))
         THEN Raise("AttributeError")
       ELSE IF Get(payload_of(tnodes[1]), "target_digest") # proposal_digest
         THEN Fail("TARGET", "targetref", "target_digest != proposal_digest")
       ELSE PASS

\* anchor_gate with the two hash comparisons in the other order
anchor_gate_energy_first(c, a) ==
    LET anodes == find_nodes_by_type(c, "IntentAnchor")
    IN IF Len(anodes) # 1
         THEN Fail("SCHEMA", "anchor", <<"IntentAnchor count=", Len(anodes)>>)
       ELSE IF ~IsDict(payload_of(anodes[1]))
         THEN Raise("AttributeError")
       ELSE IF Get(payload_of(anodes[1]), "h_energy_policy") # Get(a, "energy_policy_hash_current")
         THEN Fail("ANCHOR_E", "anchor_energy", "h_energy_policy mismatch")
       ELSE IF Get(payload_of(anodes[1]), "h_constitution") # Get(a, "constitution_hash_current")
         THEN Fail("ANCHOR_C", "anchor_const", "h_constitution mismatch")
       ELSE PASS

\* verify, lines 177-190
anchor_gate(c, a) ==
    LET anodes == find_nodes_by_type(c, "IntentAnchor")
    IN IF Len(anodes) # 1
         THEN Fail("SCHEMA", "anchor", <<"IntentAnchor count=", Len(anodes)>>)
       ELSE IF ~IsDict(payload_of(anodes[1]))
         THEN Raise("AttributeError")
       ELSE IF Get(payload_of(anodes[1]), "h_constitution") # Get(a, "constitution_hash_current")
         THEN Fail("ANCHOR_C", "anchor_const", "h_constitution mismatch")
       ELSE IF Get(payload_of(anodes[1]), "h_energy_policy") # Get(a, "energy_policy_hash_current")
         THEN Fail("ANCHOR_E", "anchor_energy", "h_energy_policy mismatch")
       ELSE PASS

\* The scan with a failing entry revoking an earlier pass of the same gate
RECURSIVE passed_scan_revoking(_, _)
passed_scan_revoking(passed, gate_outputs) ==
    IF gate_outputs = <<>> THEN passed
    ELSE LET it == Head(gate_outputs)
         IN IF ~IsDict(it) THEN passed_scan_revoking(passed, Tail(gate_outputs))
            ELSE IF IsStr(Get(it, "gate_id")) /\ Get(it, "output") = JInt(0)
              THEN passed_scan_revoking(passed \cup {Get(it, "gate_id").s}, Tail(gate_outputs))
            ELSE IF IsStr(Get(it, "gate_id"))
              THEN passed_scan_revoking(passed \ {Get(it, "gate_id").s}, Tail(gate_outputs))
            ELSE passed_scan_revoking(passed, Tail(gate_outputs))

\* verify, lines 201-208: the scan that accumulates passed
RECURSIVE passed_scan(_, _)
passed_scan(passed, gate_outputs) ==
    IF gate_outputs = <<>> THEN passed
    ELSE LET it == Head(gate_outputs)
         IN IF ~IsDict(it) THEN passed_scan(passed, Tail(gate_outputs))
            ELSE IF IsStr(Get(it, "gate_id")) /\ Get(it, "output") = JInt(0)
              THEN passed_scan(passed \cup {Get(it, "gate_id").s}, Tail(gate_outputs))
            ELSE passed_scan(passed, Tail(gate_outputs))

\* Python's order on str, for the gate ids of REQ_GATES_MIN (by code point)
STR_ORDER == <<"G_ANCHOR_CONST", "G_ANCHOR_ENERGY", "G_BUDGET", "G_TARGETREF", "G_TOPO">>

str_lt(x, y) ==
    \E i, j \in DOMAIN STR_ORDER : i < j /\ STR_ORDER[i] = x /\ STR_ORDER[j] = y

\* sorted(list(S)): the least element first
RECURSIVE sorted(_)
sorted(S) ==
    IF S = {} THEN <<>>
    ELSE LET m == CHOOSE x \in S : \A y \in S \ {x} : str_lt(x, y)
         IN <<m>> \o sorted(S \ {m})

\* verify, lines 192-212
coverage_gate(c) ==
    LET gnodes == find_nodes_by_type(c, "GateVector")
    IN IF Len(gnodes) # 1
         THEN Fail("SCHEMA", "gatevector", <<"GateVector count=", Len(gnodes)>>)
       ELSE IF ~IsDict(payload_of(gnodes[1]))
         THEN Raise("AttributeError")
       ELSE LET gate_outputs == GetDefault(payload_of(gnodes[1]), "gate_outputs", JList(<<>>))
            IN IF ~IsList(gate_outputs)
                 THEN Fail("SCHEMA", "gatevector", "gate_outputs not list")
               ELSE LET passed == passed_scan({}, gate_outputs.l)
                    IN IF ~(REQ_GATES_MIN \subseteq passed)
                         THEN Fail("COVER", "coverage", <<"missing=", sorted(REQ_GATES_MIN \ passed)>>)
                       ELSE PASS

\* budget_gate with the bound off by one
budget_gate_off_by_one(action_class, energy_est_uj, a) ==
    LET budget_map == GetDefault(a, "energy_budget_uj", JObj(<<>>))
        budget     == Get(budget_map, action_class.s)
    IN IF ~IsInt(budget)
         THEN Fail("SCHEMA", "budget", "missing budget")
       ELSE IF energy_est_uj.i > budget.i + 1
         THEN Fail("BUDGET", "budget", <<"est=", energy_est_uj.i, " > budget=", budget.i>>)
       ELSE PASS

\* verify, lines 214-220
budget_gate(action_class, energy_est_uj, a) ==
    LET budget_map == GetDefault(a, "energy_budget_uj", JObj(<<>>))
        budget     == Get(budget_map, action_class.s)
    IN IF ~IsInt(budget)
         THEN Fail("SCHEMA", "budget", "missing budget")
       ELSE IF energy_est_uj.i > budget.i
         THEN Fail("BUDGET", "budget", <<"est=", energy_est_uj.i, " > budget=", budget.i>>)
       ELSE PASS

\* verify, lines 222-227
witness_gate(e) ==
    LET env_wo   == Pop(e, "witness_hash")
        expected == compute_witness_hash(env_wo)
    IN IF Get(e, "witness_hash") # expected
         THEN Fail("WITNESS", "witness", "witness_hash mismatch")
       ELSE PASS

\* verify(env, anchors): the gates in the order of the code; a gate is only
\* evaluated when every gate before it passed
verify(e, a) ==
    LET r1 == schema_gate(e)
    IN IF r1.kind # "pass" THEN r1
       ELSE LET r2 == topology_gate(Get(e, "tcc"))
       IN IF r2.kind # "pass" THEN r2
       ELSE LET r3 == targetref_gate(Get(e, "tcc"), Get(e, "proposal_digest"))
       IN IF r3.kind # "pass" THEN r3
       ELSE LET r4 == anchor_gate(Get(e, "tcc"), a)
       IN IF r4.kind # "pass" THEN r4
       ELSE LET r5 == coverage_gate(Get(e, "tcc"))
       IN IF r5.kind # "pass" THEN r5
       ELSE LET r6 == budget_gate(Get(e, "action_class"), Get(e, "energy_est_uj"), a)
       IN IF r6.kind # "pass" THEN r6
       ELSE LET r7 == witness_gate(e)
       IN IF r7.kind # "pass" THEN r7
       ELSE Ret(TRUE, "OK", [stage |-> "ok"])

----------------------------------------------------------------------------
(* src/run_vectors.py: _auto_fill_witness *)

\* env.get raises AttributeError when the parsed file is no dict
auto_fill_raises(e) == ~IsDict(e)

auto_fill_witness(e) ==
    IF Get(e, "witness_hash") = JStr("AUTO")
      THEN SetItem(e, "witness_hash", compute_witness_hash(Pop(e, "witness_hash")))
      ELSE e

----------------------------------------------------------------------------
(* Bounded inputs: envelopes and anchor configurations *)

\* Largest energy_est_uj an envelope of the input set carries
MaxEnergy == 2

Node(id, type, payload) == MkDict([id |-> id, type |-> JStr(type), payload |-> payload])
Edge(a, b) == JObj([from |-> JStr(a), to |-> JStr(b)])

GateOut(g, o) == MkDict([gate_id |-> g, output |-> o])

\* A GateVector payload list in which exactly the gates of S passed
PassedList(S) == [i \in 1..Cardinality(S) |-> GateOut(JStr(sorted(S)[i]), JInt(0))]

TargetRefNode(payload) == Node(JStr("T"), "TargetRef", payload)
IntentAnchorNode(payload) == Node(JStr("I"), "IntentAnchor", payload)
GateVectorNode(payload) == Node(JStr("G"), "GateVector", payload)

TargetRefVariants ==
    { <<>>,
      <<TargetRefNode(JObj([target_digest |-> JStr("d1")]))>>,
      <<TargetRefNode(JObj([target_digest |-> JStr("d0")]))>>,
      <<TargetRefNode(ABSENT)>>,
      <<TargetRefNode(JObj([target_digest |-> JStr("d1")])),
        Node(JStr("T2"), "TargetRef", JObj([target_digest |-> JStr("d1")]))>>,
      <<TargetRefNode(JStr("junk"))>> }

IntentAnchorVariants ==
    { <<IntentAnchorNode(JObj([h_constitution |-> JStr(c), h_energy_policy |-> JStr(e)]))>> :
          c \in {"c1", "c0"}, e \in {"e1", "e0"} }
    \cup { <<>>,
           <<IntentAnchorNode(ABSENT)>>,
           <<IntentAnchorNode(JObj([h_constitution |-> JStr("c1"), h_energy_policy |-> JStr("e1")])),
             Node(JStr("I2"), "IntentAnchor", JObj([h_constitution |-> JStr("c1"), h_energy_policy |-> JStr("e1")]))>> }

GateVectorVariants ==
    { <<>>,
      <<GateVectorNode(JObj([gate_outputs |-> JList(PassedList(REQ_GATES_MIN))]))>>,
      <<GateVectorNode(JObj([gate_outputs |-> JList(PassedList(REQ_GATES_MIN \ {"G_BUDGET"}))]))>>,
      <<GateVectorNode(JObj([gate_outputs |-> JStr("all passed")]))>>,
      <<GateVectorNode(JNull)>>,
      <<GateVectorNode(JObj([gate_outputs |-> JList(PassedList(REQ_GATES_MIN))])),
        Node(JStr("G2"), "GateVector", ABSENT)>> }

Chain == <<Edge("R", "T"), Edge("T", "I"), Edge("I", "G"), Edge("G", "X")>>

EdgeVariants ==
    { JList(Chain),
      JList(Chain \o <<Edge("X", "R")>>),                      \* cycle through root and receipt
      JList(Chain \o <<Edge("G", "T")>>),                      \* cycle away from root and receipt
      JList(Chain \o <<Edge("Z", "Z")>>),                      \* self-loop on a node of its own
      JList(<<Edge("R", "T"), Edge("G", "X")>>),               \* no path
      JList(Chain \o <<JObj([from |-> JInt(5), to |-> JStr("R")])>>),   \* malformed, dropped
      JList(Chain \o <<JStr("junk")>>) }                       \* an entry that is no dict

RootReceiptVariants ==
    { [root |-> JStr("R"), receipt |-> JStr("X")],
      [root |-> JNull,     receipt |-> JStr("X")],
      [root |-> JStr(""),  receipt |-> JStr("X")],
      [root |-> ABSENT,    receipt |-> JStr("X")],
      [root |-> JStr("R"), receipt |-> JInt(3)],
      [root |-> JStr("R"), receipt |-> ABSENT] }

Tcc(rr, nodes, edges) ==
    MkDict([root |-> rr.root, receipt |-> rr.receipt, nodes |-> nodes, edges |-> edges,
            epoch |-> JInt(1), nonce |-> JStr("n1")])

GoodTcc ==
    Tcc([root |-> JStr("R"), receipt |-> JStr("X")],
        JList(<<Node(JStr("R"), "Step", ABSENT),
                TargetRefNode(JObj([target_digest |-> JStr("d1")])),
                IntentAnchorNode(JObj([h_constitution |-> JStr("c1"), h_energy_policy |-> JStr("e1")])),
                GateVectorNode(JObj([gate_outputs |-> JList(PassedList(REQ_GATES_MIN))]))>>),
        JList(Chain))

\* Certificates for the envelopes whose top-level fields vary
TccShapes ==
    { ABSENT, JNull, JList(<<>>), GoodTcc,
      Pop(GoodTcc, "root"), Pop(GoodTcc, "nodes"), Pop(GoodTcc, "edges"),
      SetItem(GoodTcc, "nodes", JNull),
      SetItem(GoodTcc, "edges", JList(Chain \o <<Edge("X", "R")>>)) }

Body(pd, ac, en, c) ==
    MkDict([proposal_digest |-> pd, action_class |-> ac, energy_est_uj |-> en, tcc |-> c])

\* The ways an envelope body gets its witness_hash
WitnessKinds == {"honest", "AUTO", "tampered", "absent"}

WithWitness(body, kind) ==
    CASE kind = "honest"   -> SetItem(body, "witness_hash", compute_witness_hash(body))
      [] kind = "AUTO"     -> SetItem(body, "witness_hash", JStr("AUTO"))
      [] kind = "tampered" -> SetItem(body, "witness_hash",
                                      compute_witness_hash(SetItem(body, "proposal_digest", JStr("d0"))))
      [] OTHER             -> body

\* An envelope with valid top-level fields, from its certificate parts
SemanticEnv(ac, en, rr, tr, ia, gv, ed, w) ==
    WithWitness(Body(JStr("d1"), JStr(ac), JInt(en),
                     Tcc(rr, JList(<<Node(JStr("R"), "Step", ABSENT)>> \o tr \o ia \o gv), ed)), w)

\* An envelope with valid top-level fields and sound nodes
TopologyEnv(rr, ed, w) ==
    WithWitness(Body(JStr("d1"), JStr("FAST"), JInt(0), Tcc(rr, Get(GoodTcc, "nodes"), ed)), w)

\* env is drawn from the bounded set of envelopes
EnvInput(e) ==
    \/ \E ac \in {"FAST", "MID"}, en \in 0..MaxEnergy,
          rr \in {[root |-> JStr("R"), receipt |-> JStr("X")], [root |-> JNull, receipt |-> JStr("X")]},
          tr \in TargetRefVariants, ia \in IntentAnchorVariants, gv \in GateVectorVariants,
          ed \in EdgeVariants, w \in {"honest", "tampered"} :
            e = SemanticEnv(ac, en, rr, tr, ia, gv, ed, w)
    \/ \E rr \in RootReceiptVariants, ed \in EdgeVariants \cup {JNull}, w \in {"honest", "AUTO"} :
            e = TopologyEnv(rr, ed, w)
    \/ \E pd \in {ABSENT, JNull, JStr(""), JInt(7), JStr("d1")},
          ac \in {ABSENT, JNull, JStr("BOGUS"), JList(<<>>), JStr("FAST")},
          en \in {ABSENT, JInt(0 - 1), JStr("1"), JInt(0)},
          c \in TccShapes, w \in WitnessKinds :
            e = WithWitness(Body(pd, ac, en, c), w)
    \/ e \in {JList(<<>>), JNull}      \* a vector file may parse to something that is no dict

Anchors(c, e, budgets) ==
    JObj([constitution_hash_current |-> JStr(c), energy_policy_hash_current |-> JStr(e),
          energy_budget_uj |-> budgets])

FullBudgets == JObj([FAST |-> JInt(1), MID |-> JInt(2), HEAVY |-> JInt(3), EXTERNAL |-> JInt(0)])

AnchorConfigs ==
    { Anchors("c1", "e1", FullBudgets),
      Anchors("c1", "e1", JObj([FAST |-> JInt(1)])),
      Anchors("c2", "e2", FullBudgets) }

----------------------------------------------------------------------------
(* Values of the variables a specification does not use *)

IdleVerify == env = JNull /\ result = NoResult /\ vpc = "idle"

IdleMain ==
    /\ vectors = <<>> /\ out = <<>> /\ summary = <<>> /\ files = <<>>
    /\ idx = 0 /\ pc = "idle" /\ now = 0 /\ prevOut = <<>> /\ runs = 0

IdleTopo == tcc = JNull /\ graph = <<>> /\ kahn = <<>> /\ dfs = <<>> /\ tpc = "idle"

----------------------------------------------------------------------------
(* One call of verify, as main makes it: optionally after _auto_fill_witness *)

InitVerify ==
    /\ EnvInput(env)
    /\ anchors \in AnchorConfigs
    /\ result = NoResult
    /\ vpc = "loaded"
    /\ IdleMain /\ IdleTopo

\* env = _auto_fill_witness(env)
AutoFill ==
    /\ vpc = "loaded"
    /\ IF auto_fill_raises(env)
         THEN env' = env /\ result' = Raise("AttributeError") /\ vpc' = "verified"
         ELSE env' = auto_fill_witness(env) /\ result' = result /\ vpc' = "filled"
    /\ UNCHANGED <<anchors, mainVars, topoVars>>

\* ok, reason, debug = verify(env, anchors)
Verify ==
    /\ vpc \in {"loaded", "filled"}
    /\ result' = verify(env, anchors)
    /\ vpc' = "verified"
    /\ UNCHANGED <<env, anchors, mainVars, topoVars>>

NextVerify == AutoFill \/ Verify

SpecVerify == InitVerify /\ [][NextVerify]_vars

----------------------------------------------------------------------------
(* What the properties of an envelope mean, stated on the envelope itself:    *)
(* by sets and closures, not by the loops of the code.  Every accessor is     *)
(* total, so that a property can be asked of any parsed file.                 *)

SGet(d, k) == IF IsDict(d) THEN Get(d, k) ELSE JNull

RefTcc(e) == SGet(e, "tcc")

\* The declared nodes that are objects
RefNodes(e) ==
    LET ns == SGet(RefTcc(e), "nodes")
    IN IF IsList(ns) THEN SelectSeq(ns.l, IsDict) ELSE <<>>

\* The edges of the certificate graph, as a set of pairs of node ids
RefEdges(e) ==
    LET es == SGet(RefTcc(e), "edges")
    IN IF IsList(es)
         THEN { <<Get(es.l[i], "from").s, Get(es.l[i], "to").s>> :
                  i \in { j \in DOMAIN es.l : /\ IsDict(es.l[j])
                                             /\ NonEmptyStr(Get(es.l[j], "from"))
                                             /\ NonEmptyStr(Get(es.l[j], "to")) } }
         ELSE {}

Succ(E, S) == { p[2] : p \in { q \in E : q[1] \in S } }

RECURSIVE Closure(_, _)
Closure(E, S) == IF Succ(E, S) \subseteq S THEN S ELSE Closure(E, S \cup Succ(E, S))

\* The nodes reached from n by a path of one edge or more
Descendants(E, n) == Closure(E, Succ(E, {n}))

\* No directed cycle: no node is its own descendant
RefAcyclic(E) == \A p \in E : p[1] \notin Descendants(E, p[1])

\* A directed path (possibly of no edge) from r to x
RefReach(E, r, x) == x = r \/ x \in Descendants(E, r)

NodesOfType(e, ty) == SelectSeq(RefNodes(e), LAMBDA n : Get(n, "type") = JStr(ty))

\* The payload of the only node of a type, {} when the node carries none
OnlyPayload(e, ty) == GetDefault(NodesOfType(e, ty)[1], "payload", JObj(<<>>))

RefGateOutputs(e) == 
    LET p == OnlyPayload(e, "GateVector")
    IN IF IsDict(p) THEN GetDefault(p, "gate_outputs", JList(<<>>)) ELSE JNull

\* The gate ids that occur in an entry with output 0
RefPassed(l) ==
    { Get(l[i], "gate_id").s :
        i \in { j \in DOMAIN l : /\ IsDict(l[j])
                                 /\ IsStr(Get(l[j], "gate_id"))
                                 /\ Get(l[j], "output") = JInt(0) } }

RefBudget(e, a) ==
    IF IsStr(SGet(e, "action_class"))
      THEN SGet(SGet(a, "energy_budget_uj"), SGet(e, "action_class").s)
      ELSE JNull

\* The checks of the chain in its order, each with the reason and stage it reports
CHECKS ==
    << [reason |-> "schema_invalid",                          stage |-> "schema"],
       [reason |-> "invalid_tcc_topology",                    stage |-> "topology"],
       [reason |-> "missing_or_invalid_targetref",            stage |-> "targetref"],
       [reason |-> "schema_invalid",                          stage |-> "anchor"],
       [reason |-> "outdated_or_missing_constitution_anchor", stage |-> "anchor_const"],
       [reason |-> "outdated_or_missing_energy_anchor",       stage |-> "anchor_energy"],
       [reason |-> "schema_invalid",                          stage |-> "gatevector"],
       [reason |-> "missing_gatevector_coverage",             stage |-> "coverage"],
       [reason |-> "schema_invalid",                          stage |-> "budget"],
       [reason |-> "egl_budget_exceeded",                     stage |-> "budget"],
       [reason |-> "witness_mismatch",                        stage |-> "witness"] >>

TopLevelValid(e) ==
    /\ IsDict(e)
    /\ \A k \in {"proposal_digest", "action_class", "energy_est_uj", "tcc", "witness_hash"} :
          HasKey(e, k)
    /\ NonEmptyStr(Get(e, "proposal_digest"))
    /\ IsStr(Get(e, "action_class")) /\ Get(e, "action_class").s \in ALLOWED_ACTIONS
    /\ IsInt(Get(e, "energy_est_uj")) /\ Get(e, "energy_est_uj").i >= 0
    /\ IsDict(Get(e, "tcc"))

\* Whether envelope e violates check i of CHECKS under anchors a
Violated(i, e, a) ==
    CASE i = 1  -> ~(TopLevelValid(e) /\
                     \A k \in {"root", "receipt", "nodes", "edges"} : HasKey(Get(e, "tcc"), k))
      [] i = 2  -> ~( /\ NonEmptyStr(SGet(RefTcc(e), "root"))
                      /\ NonEmptyStr(SGet(RefTcc(e), "receipt"))
                      /\ RefAcyclic(RefEdges(e))
                      /\ RefReach(RefEdges(e), SGet(RefTcc(e), "root").s, SGet(RefTcc(e), "receipt").s) )
      [] i = 3  -> \/ Len(NodesOfType(e, "TargetRef")) # 1
                   \/ SGet(OnlyPayload(e, "TargetRef"), "target_digest") # SGet(e, "proposal_digest")
      [] i = 4  -> Len(NodesOfType(e, "IntentAnchor")) # 1
      [] i = 5  -> /\ Len(NodesOfType(e, "IntentAnchor")) = 1
                   /\ SGet(OnlyPayload(e, "IntentAnchor"), "h_constitution")
                        # SGet(a, "constitution_hash_current")
      [] i = 6  -> /\ Len(NodesOfType(e, "IntentAnchor")) = 1
                   /\ SGet(OnlyPayload(e, "IntentAnchor"), "h_energy_policy")
                        # SGet(a, "energy_policy_hash_current")
      [] i = 7  -> \/ Len(NodesOfType(e, "GateVector")) # 1
                   \/ ~IsList(RefGateOutputs(e))
      [] i = 8  -> /\ Len(NodesOfType(e, "GateVector")) = 1
                   /\ IsList(RefGateOutputs(e))
                   /\ ~(REQ_GATES_MIN \subseteq RefPassed(RefGateOutputs(e).l))
      [] i = 9  -> ~IsInt(RefBudget(e, a))
      [] i = 10 -> /\ IsInt(RefBudget(e, a)) /\ IsInt(SGet(e, "energy_est_uj"))
                   /\ SGet(e, "energy_est_uj").i > RefBudget(e, a).i
      [] OTHER  -> \/ ~IsDict(e)
                   \/ Get(e, "witness_hash") # compute_witness_hash(Pop(e, "witness_hash"))

ViolatedChecks(e, a) == { i \in DOMAIN CHECKS : Violated(i, e, a) }

Earliest(S) == CHOOSE i \in S : \A j \in S : i <= j

Returned == vpc = "verified" /\ result.kind = "return"

----------------------------------------------------------------------------
(* C1: whenever verify returns (True, "OK", ...), the certificate graph is    *)
(* acyclic, receipt is reachable from root, there is exactly one TargetRef,   *)
(* IntentAnchor and GateVector node, target_digest equals proposal_digest,    *)
(* the two anchor hashes equal the current anchors, every required gate id    *)
(* occurs in gate_outputs with output 0, energy_est_uj is within the budget   *)
(* of its action class, and witness_hash is the canonical hash of the         *)
(* envelope without witness_hash.                                             *)
AdmissionSound ==
    (Returned /\ result.ok) =>
       /\ result.reason = "OK"
       /\ RefAcyclic(RefEdges(env))
       /\ RefReach(RefEdges(env), Get(RefTcc(env), "root").s, Get(RefTcc(env), "receipt").s)
       /\ \A ty \in {"TargetRef", "IntentAnchor", "GateVector"} : Len(NodesOfType(env, ty)) = 1
       /\ Get(OnlyPayload(env, "TargetRef"), "target_digest") = Get(env, "proposal_digest")
       /\ Get(OnlyPayload(env, "IntentAnchor"), "h_constitution") = Get(anchors, "constitution_hash_current")
       /\ Get(OnlyPayload(env, "IntentAnchor"), "h_energy_policy") = Get(anchors, "energy_policy_hash_current")
       /\ \A g \in REQ_GATES_MIN :
             \E i \in DOMAIN RefGateOutputs(env).l :
                 /\ IsDict(RefGateOutputs(env).l[i])
                 /\ Get(RefGateOutputs(env).l[i], "gate_id") = JStr(g)
                 /\ Get(RefGateOutputs(env).l[i], "output") = JInt(0)
       /\ Get(env, "energy_est_uj").i <= RefBudget(env, anchors).i
       /\ Get(env, "witness_hash") = compute_witness_hash(Pop(env, "witness_hash"))

\* An envelope was admitted with its energy estimate exactly at the budget
AdmittedAtBudget ==
    /\ Returned /\ result.ok
    /\ Get(env, "energy_est_uj").i = RefBudget(env, anchors).i

(* C2: whenever verify returns for an envelope that violates one or more      *)
(* checks of the chain (schema, topology, TargetRef, IntentAnchor count,      *)
(* constitution hash, energy-policy hash, GateVector shape, coverage, budget  *)
(* entry, budget, witness), the returned reason and stage are those of the    *)
(* earliest violated check; so schema and topology both violated gives        *)
(* schema_invalid, and both anchor hashes stale gives the constitution reason.*)
GateOrdering ==
    Returned =>
       LET V == ViolatedChecks(env, anchors)
       IN V # {} =>
            /\ ~result.ok
            /\ result.reason = CHECKS[Earliest(V)].reason
            /\ result.debug.stage = CHECKS[Earliest(V)].stage

\* verify returned for an envelope whose two anchor hashes are both stale and
\* whose coverage is short as well
BothAnchorsStale ==
    /\ Returned
    /\ {5, 6, 8} \subseteq ViolatedChecks(env, anchors)
    /\ Earliest(ViolatedChecks(env, anchors)) = 5
    /\ result.reason = REASON["ANCHOR_C"]

(* C6: for every envelope whose other top-level fields are valid and whose    *)
(* tcc has nodes and edges but root or receipt absent, empty or not a string, *)
(* verify rejects with invalid_tcc_topology at stage topology, never with     *)
(* schema_invalid.                                                            *)
MissingRootIsTopology ==
    ( /\ Returned
      /\ TopLevelValid(env)
      /\ HasKey(Get(env, "tcc"), "nodes") /\ HasKey(Get(env, "tcc"), "edges")
      /\ \/ ~NonEmptyStr(Get(Get(env, "tcc"), "root"))
         \/ ~NonEmptyStr(Get(Get(env, "tcc"), "receipt")) )
    => /\ ~result.ok
       /\ result.reason = REASON["TOPO"]
       /\ result.debug.stage = "topology"

(* C7: every return of verify is a triple (ok, reason, debug) whose reason is *)
(* one of the nine codes, ok is true iff reason is "OK", debug carries a      *)
(* stage, and on every failure debug carries a detail as well.                *)
StructuredOutcome ==
    Returned =>
       /\ result.reason \in {REASON[k] : k \in DOMAIN REASON} \cup {"OK"}
       /\ result.ok <=> result.reason = "OK"
       /\ "stage" \in DOMAIN result.debug
       /\ ~result.ok => "detail" \in DOMAIN result.debug

----------------------------------------------------------------------------
(* The coverage stage on GateVector lists of every shape *)

\* Longest run of arbitrary entries put in front of a GateVector list
MaxHead == 1

SeqsUpTo(S, n) == UNION { [1..k -> S] : k \in 0..n }

\* Entries of a gate_outputs list: passes, failures, a gate outside the
\* required set, a gate_id that is no string, a missing output, a non-dict
GateEntries ==
    { GateOut(JStr(g), JInt(0)) : g \in REQ_GATES_MIN \cup {"G_EXTRA"} }
    \cup { GateOut(JStr(g), JInt(1)) : g \in {"G_TOPO", "G_BUDGET"} }
    \cup { GateOut(JInt(5), JInt(0)), GateOut(JStr("G_TOPO"), ABSENT), JStr("junk") }

GateEnv(gate_outputs, w) ==
    SemanticEnv("FAST", 0, [root |-> JStr("R"), receipt |-> JStr("X")],
                <<TargetRefNode(JObj([target_digest |-> JStr("d1")]))>>,
                <<IntentAnchorNode(JObj([h_constitution |-> JStr("c1"), h_energy_policy |-> JStr("e1")]))>>,
                <<GateVectorNode(JObj([gate_outputs |-> JList(gate_outputs)]))>>,
                JList(Chain), w)

InitGates ==
    /\ \E S \in SUBSET REQ_GATES_MIN, head \in SeqsUpTo(GateEntries, MaxHead),
          tail \in SeqsUpTo(GateEntries, 1), w \in {"honest", "AUTO"} :
            env = GateEnv(head \o PassedList(S) \o tail, w)
    /\ anchors = Anchors("c1", "e1", FullBudgets)
    /\ result = NoResult
    /\ vpc = "loaded"
    /\ IdleMain /\ IdleTopo

SpecGates == InitGates /\ [][NextVerify]_vars

ReachedCoverage ==
    Returned /\ result.debug.stage \in {"coverage", "budget", "witness", "ok"}

(* C8: for an envelope that reaches the coverage stage, the passed set is     *)
(* exactly the set of gate ids that occur in some gate_outputs entry with     *)
(* output 0, whatever the order, the duplicates and the failing entries for   *)
(* the same id; the stage rejects with missing_gatevector_coverage iff a      *)
(* required gate id is not in that set, and the detail then lists exactly the *)
(* missing required ids, each once, in ascending order.                       *)
CoverageAccumulation ==
    ReachedCoverage =>
       LET l       == RefGateOutputs(env).l
           missing == REQ_GATES_MIN \ RefPassed(l)
       IN /\ passed_scan({}, l) = RefPassed(l)
          /\ (result.reason = REASON["COVER"]) <=> (missing # {})
          /\ (result.reason = REASON["COVER"]) =>
                /\ result.debug.stage = "coverage"
                /\ result.debug.detail[1] = "missing="
                /\ Len(result.debug.detail[2]) = Cardinality(missing)
                /\ SeqRange(result.debug.detail[2]) = missing
                /\ \A i, j \in DOMAIN result.debug.detail[2] :
                      i < j => str_lt(result.debug.detail[2][i], result.debug.detail[2][j])

\* A gate passed and then failed in a later entry; exactly one other required
\* gate is left out and is the only one reported
PassNotRevoked ==
    /\ ReachedCoverage
    /\ result.reason = REASON["COVER"]
    /\ result.debug.detail[2] = <<"G_ANCHOR_CONST">>
    /\ \E i, j \in DOMAIN RefGateOutputs(env).l :
          /\ i < j
          /\ RefGateOutputs(env).l[i] = GateOut(JStr("G_TOPO"), JInt(0))
          /\ RefGateOutputs(env).l[j] = GateOut(JStr("G_TOPO"), JInt(1))

----------------------------------------------------------------------------
(* The topology gate step by step: _build_graph, then the while loop of       *)
(* _is_dag, then the while loop of _reachable                                 *)

\* Largest number of entries in the edges list of a certificate
MaxEdges == 3

NodeIds == {"A", "B", "C"}

\* The declared nodes: none, one besides an entry whose id is no string, all
DeclaredVariants ==
    { <<>>,
      <<Node(JStr("A"), "Step", ABSENT), Node(JInt(5), "Step", ABSENT), Node(JStr(""), "Step", ABSENT)>>,
      <<Node(JStr("A"), "Step", ABSENT), Node(JStr("B"), "Step", ABSENT), Node(JStr("C"), "Step", ABSENT)>> }

InitTopo ==
    /\ \E r \in NodeIds, x \in NodeIds, ns \in DeclaredVariants,
          es \in SeqsUpTo({Edge(a, b) : a \in NodeIds, b \in NodeIds}, MaxEdges) :
            tcc = Tcc([root |-> JStr(r), receipt |-> JStr(x)], JList(ns), JList(es))
    /\ anchors = JNull
    /\ graph = <<>> /\ kahn = <<>> /\ dfs = <<>>
    /\ tpc = "start"
    /\ IdleVerify /\ IdleMain

\* adj, nodeset = _build_graph(tcc)
TopoBuild ==
    /\ tpc = "start"
    /\ graph' = build_graph(tcc)
    /\ tpc' = "built"
    /\ UNCHANGED <<tcc, kahn, dfs, anchors, verVars, mainVars>>

\* _is_dag up to the while loop; the queue lists the nodes of in-degree 0 in
\* the order the dict yields them
KahnInit ==
    /\ tpc = "built"
    /\ \E order \in Orders(ZeroIndeg(kahn_indeg(graph.adj, graph.nodeset))) :
          kahn' = kahn_init(graph.adj, graph.nodeset, order)
    /\ tpc' = "kahn"
    /\ UNCHANGED <<tcc, graph, dfs, anchors, verVars, mainVars>>

\* one iteration of "while queue"
KahnLoop ==
    /\ tpc = "kahn"
    /\ kahn.queue # <<>>
    /\ kahn' = kahn_step(graph.adj, kahn)
    /\ UNCHANGED <<tcc, graph, dfs, tpc, anchors, verVars, mainVars>>

\* the loop is left: "not a DAG" is returned, or _reachable is entered
KahnExit ==
    /\ tpc = "kahn"
    /\ kahn.queue = <<>>
    /\ IF kahn_result(kahn)
         THEN /\ dfs' = dfs_init(Get(tcc, "root").s)
              /\ tpc' = "dfs"
              /\ UNCHANGED result
         ELSE /\ result' = Fail("TOPO", "topology", "not a DAG")
              /\ tpc' = "done"
              /\ UNCHANGED dfs
    /\ UNCHANGED <<tcc, graph, kahn, anchors, env, vpc, mainVars>>

\* one iteration of "while stack"
DfsLoop ==
    /\ tpc = "dfs"
    /\ ~dfs_done(dfs)
    /\ dfs' = dfs_step(graph.adj, Get(tcc, "receipt").s, dfs)
    /\ UNCHANGED <<tcc, graph, kahn, tpc, anchors, verVars, mainVars>>

\* _reachable returns
DfsExit ==
    /\ tpc = "dfs"
    /\ dfs_done(dfs)
    /\ result' = IF dfs.ret = "True" THEN PASS
                 ELSE Fail("TOPO", "topology", "receipt not reachable from root")
    /\ tpc' = "done"
    /\ UNCHANGED <<tcc, graph, kahn, dfs, anchors, env, vpc, mainVars>>

NextTopo == TopoBuild \/ KahnInit \/ KahnLoop \/ KahnExit \/ DfsLoop \/ DfsExit

SpecTopo == InitTopo /\ [][NextTopo]_vars

RECURSIVE SumOf(_, _)
SumOf(f, S) ==
    IF S = {} THEN 0
    ELSE LET x == CHOOSE y \in S : TRUE IN f[x] + SumOf(f, S \ {x})

\* Work left in _reachable: the stack, plus every unvisited node and its edges
DfsWork(adj, root, st) ==
    LET w == [n \in DOMAIN adj \cup {root} |-> 1 + Len(adj_get(adj, n))]
    IN Len(st.stack) + SumOf(w, (DOMAIN adj \cup {root}) \ st.seen)

\* A natural number that every step of the topology gate makes smaller
TopoMeasure ==
    LET g       == IF tpc = "start" THEN build_graph(tcc) ELSE graph
        root    == Get(tcc, "root").s
        dfsMax  == 2 + DfsWork(g.adj, root, [stack |-> <<>>, seen |-> {}])
    IN CASE tpc = "done"  -> 0
         [] tpc = "dfs"   -> 1 + DfsWork(g.adj, root, dfs)
         [] tpc = "kahn"  -> dfsMax + 1 + (Cardinality(DOMAIN kahn.indeg) - kahn.seen)
         [] tpc = "built" -> dfsMax + 2 + Cardinality(g.nodeset)
         [] OTHER         -> dfsMax + 3 + Cardinality(g.nodeset)

TopoEdges == RefEdges(JObj([tcc |-> tcc]))

\* The nodes that lie on a directed cycle
OnCycle == { p[1] : p \in { q \in TopoEdges : q[1] \in Descendants(TopoEdges, q[1]) } }

TopologyVerdict ==
    tpc = "done" =>
       /\ (result = PASS) <=>
             /\ RefAcyclic(TopoEdges)
             /\ RefReach(TopoEdges, Get(tcc, "root").s, Get(tcc, "receipt").s)
       /\ result # PASS =>
             /\ result.kind = "return" /\ ~result.ok
             /\ result.reason = REASON["TOPO"] /\ result.debug.stage = "topology"
       /\ result = topology_gate(tcc)

(* C10: for every certificate with non-empty string root and receipt, the     *)
(* topology stage passes iff the graph over declared ids and edge endpoints,  *)
(* duplicate edges and self-loops counted, has no directed cycle anywhere and *)
(* there is a directed path from root to receipt; otherwise the outcome is    *)
(* invalid_tcc_topology; and the Kahn loop and the depth-first loop both      *)
(* terminate: inside either loop a step can always be taken, and every step  *)
(* of the stage makes a natural number smaller.                               *)
TopologyMatchesReference ==
    /\ []TopologyVerdict
    /\ [](/\ TopoMeasure \in Nat
          /\ tpc = "kahn" => ENABLED (KahnLoop \/ KahnExit)
          /\ tpc = "dfs" => ENABLED (DfsLoop \/ DfsExit))
    /\ [][TopoMeasure' < TopoMeasure]_vars

\* The stage rejected a certificate whose receipt is reachable from root and
\* whose only cycle touches neither of them
CycleAwayFromPath ==
    /\ tpc = "done"
    /\ result # PASS /\ result.debug.detail = "not a DAG"
    /\ RefReach(TopoEdges, Get(tcc, "root").s, Get(tcc, "receipt").s)
    /\ Get(tcc, "root").s # Get(tcc, "receipt").s
    /\ OnCycle # {}
    /\ Get(tcc, "root").s \notin OnCycle /\ Get(tcc, "receipt").s \notin OnCycle

----------------------------------------------------------------------------
(* src/run_vectors.py: main, one batch run after another over the same       *)
(* vector files and anchors                                                   *)

\* Largest number of vector files in VEC_DIR
MaxFiles == 2
\* Largest value of the clock, in seconds
MaxClock == 2
\* Number of times main is run
MaxRuns == 2

receipts_path == "receipts.jsonl"
tomb_path     == "tombstone.jsonl"
seal_path     == "ledger_seal.jsonl"
summary_path  == "summary.json"

\* json.dumps(obj, ensure_ascii=False) + "\n"
jsonl_line(obj) == [json |-> obj, nl |-> "\n"]

\* _read_bytes(p): the file's content, b"" when it does not exist
read_bytes(fs, p) == IF p \in DOMAIN fs THEN fs[p] ELSE <<>>

\* _append_jsonl(path, obj): opens in mode "a", which creates the file
append_jsonl(fs, p, obj) ==
    [q \in DOMAIN fs \cup {p} |-> IF q = p THEN Append(read_bytes(fs, p), jsonl_line(obj)) ELSE fs[q]]

\* os.remove(p) for every p of ps that exists
remove_all(fs, ps) == [q \in DOMAIN fs \ ps |-> fs[q]]

\* sorted(listdir): the file ids in ascending order, whatever order listdir gave
RECURSIVE sorted_ids(_)
sorted_ids(S) ==
    IF S = {} THEN <<>>
    ELSE LET m == CHOOSE x \in S : \A y \in S : x <= y
         IN <<m>> \o sorted_ids(S \ {m})

\* The envelopes a vector file of the bounded batch may hold
GoodBody == Body(JStr("d1"), JStr("FAST"), JInt(1), GoodTcc)

BatchEnvs ==
    { WithWitness(GoodBody, "AUTO"),
      WithWitness(GoodBody, "tampered"),
      WithWitness(Body(JStr("d1"), JStr("FAST"), JInt(2), GoodTcc), "AUTO"),
      WithWitness(Body(JStr("d1"), JStr("FAST"), JInt(1),
                       SetItem(GoodTcc, "edges", JList(Chain \o <<Edge("X", "R")>>))), "AUTO"),
      WithWitness(Body(ABSENT, JStr("FAST"), JInt(1), GoodTcc), "AUTO"),
      WithWitness(Body(JStr("d1"), JStr("FAST"), JInt(1),
                       SetItem(GoodTcc, "nodes", JList(<<JStr("junk")>>))), "AUTO"),
      WithWitness(Body(JStr("d1"), JStr("FAST"), JInt(1), JList(<<>>)), "AUTO"),
      JList(<<>>) }

Init ==
    /\ \E n \in 0..MaxFiles : vectors \in [1..n -> BatchEnvs]
    /\ anchors = Anchors("c1", "e1", FullBudgets)
    /\ out = <<>>
    /\ summary = [ok |-> 0, fail |-> 0, details |-> <<>>]
    /\ files = <<>>
    /\ idx = 0
    /\ pc = "ready"
    /\ now = 0
    /\ prevOut = <<>>
    /\ runs = 0
    /\ IdleVerify /\ IdleTopo

\* time passes
Tick ==
    /\ now < MaxClock
    /\ now' = now + 1
    /\ UNCHANGED <<vectors, out, summary, files, idx, pc, prevOut, runs, anchors, verVars, topoVars>>

\* main, lines 50-65: a run starts (the first, or one after a run that ended)
Start ==
    /\ pc \in {"ready", "done", "crashed"}
    /\ runs < MaxRuns
    /\ runs' = runs + 1
    /\ prevOut' = out
    /\ out' = remove_all(out, {receipts_path, tomb_path, seal_path, summary_path})
    /\ files' = sorted_ids(DOMAIN vectors)
    /\ summary' = [ok |-> 0, fail |-> 0, details |-> <<>>]
    /\ idx' = 0
    /\ pc' = "loop"
    /\ UNCHANGED <<vectors, now, anchors, verVars, topoVars>>

receipt_record(ts, fn, e) ==
    [kind |-> "RECEIPT", ts |-> ts, file |-> fn,
     proposal_digest |-> e.o["proposal_digest"],
     action_class    |-> e.o["action_class"],
     energy_est_uj   |-> e.o["energy_est_uj"],
     epoch |-> Get(GetDefault(e, "tcc", JObj(<<>>)), "epoch"),
     nonce |-> Get(GetDefault(e, "tcc", JObj(<<>>)), "nonce"),
     allow |-> TRUE, reason_code |-> "OK"]

\* debug.get(k)
debug_get(debug, k) == IF k \in DOMAIN debug THEN debug[k] ELSE JNull

tomb_record(ts, fn, e, reason, debug) ==
    [kind |-> "TOMBSTONE", ts |-> ts, file |-> fn,
     proposal_digest |-> Get(e, "proposal_digest"),
     action_class    |-> Get(e, "action_class"),
     energy_est_uj   |-> Get(e, "energy_est_uj"),
     epoch |-> Get(GetDefault(e, "tcc", JObj(<<>>)), "epoch"),
     nonce |-> Get(GetDefault(e, "tcc", JObj(<<>>)), "nonce"),
     allow |-> FALSE, reason_code |-> reason,
     failure_stage |-> debug_get(debug, "stage"),
     detail |-> debug_get(debug, "detail")]

\* env.get("tcc", {}).get("epoch") raises AttributeError when tcc is no dict
tomb_raises(e) == ~IsDict(GetDefault(e, "tcc", JObj(<<>>)))

\* main, lines 67-110: one iteration of the loop over the files.  An exception
\* that escapes ends the process where it is raised: what was done before it
\* in the iteration stays done.
ProcessEnvelope ==
    /\ pc = "loop"
    /\ idx < Len(files)
    /\ LET fn == files[idx + 1]
           e0 == vectors[fn]
       IN IF auto_fill_raises(e0)
            THEN pc' = "crashed" /\ UNCHANGED <<out, summary, idx>>
          ELSE LET e   == auto_fill_witness(e0)
                   r   == verify(e, anchors)
                   row == [file |-> fn, ok |-> r.ok, reason |-> r.reason, debug |-> r.debug]
                   s1  == [summary EXCEPT !.details = Append(@, row)]
               IN IF r.kind = "raise"
                    THEN pc' = "crashed" /\ UNCHANGED <<out, summary, idx>>
                  ELSE IF r.ok
                    THEN /\ out' = append_jsonl(out, receipts_path, receipt_record(now, fn, e))
                         /\ summary' = [s1 EXCEPT !.ok = @ + 1]
                         /\ idx' = idx + 1
                         /\ pc' = pc
                  ELSE IF tomb_raises(e)
                    THEN /\ summary' = s1
                         /\ pc' = "crashed"
                         /\ UNCHANGED <<out, idx>>
                  ELSE /\ out' = append_jsonl(out, tomb_path, tomb_record(now, fn, e, r.reason, r.debug))
                       /\ summary' = [s1 EXCEPT !.fail = @ + 1]
                       /\ idx' = idx + 1
                       /\ pc' = pc
    /\ UNCHANGED <<vectors, files, now, prevOut, runs, anchors, verVars, topoVars>>

seal_record(ts, receipts_bytes, tomb_bytes) ==
    [kind |-> "LEDGER_SEAL", ts |-> ts,
     receipts_sha256  |-> sha256_hex(receipts_bytes),
     tombstone_sha256 |-> sha256_hex(tomb_bytes),
     root_sha256      |-> sha256_hex(receipts_bytes \o <<[nl |-> "\n"]>> \o tomb_bytes)]

\* main, lines 112-125: after the loop, the seal and the summary file
Seal ==
    /\ pc = "loop"
    /\ idx = Len(files)
    /\ LET sealed == append_jsonl(out, seal_path,
                                  seal_record(now, read_bytes(out, receipts_path),
                                              read_bytes(out, tomb_path)))
       IN out' = [q \in DOMAIN sealed \cup {summary_path} |->
                     IF q = summary_path THEN <<summary>> ELSE sealed[q]]
    /\ pc' = "done"
    /\ UNCHANGED <<vectors, summary, files, idx, now, prevOut, runs, anchors, verVars, topoVars>>

Next == Tick \/ Start \/ ProcessEnvelope \/ Seal

Spec == Init /\ [][Next]_vars

Receipts == read_bytes(out, receipts_path)
Tombs    == read_bytes(out, tomb_path)
Seals    == read_bytes(out, seal_path)

RunEnded == pc \in {"done", "crashed"}

(* C3: no envelope of a batch, whatever its content, causes an uncaught       *)
(* fault: every envelope gets a structured outcome, the remaining envelopes   *)
(* are processed and the run reaches the seal.                                *)
FailIsolated ==
    /\ pc # "crashed"
    /\ pc = "done" => (idx = Len(files) /\ Len(Seals) = 1)

(* C4: at every point of a batch run, with k envelopes processed, the receipt *)
(* log and the tombstone log together hold k records; every envelope verify   *)
(* returned for has one record, in the receipt log if it was admitted and in  *)
(* the tombstone log otherwise, never both, never neither; summary.ok and     *)
(* summary.fail count the receipts and the tombstones, and summary.details    *)
(* has k entries.                                                             *)
OneRecordPerEnvelope ==
    pc \in {"loop", "done", "crashed"} =>
       /\ Len(Receipts) + Len(Tombs) = idx
       /\ summary.ok = Len(Receipts)
       /\ summary.fail = Len(Tombs)
       /\ Len(summary.details) = idx
       /\ \A i \in DOMAIN summary.details :
             LET fn == summary.details[i].file
                 nr == Cardinality({j \in DOMAIN Receipts : Receipts[j].json.file = fn})
                 nt == Cardinality({j \in DOMAIN Tombs : Tombs[j].json.file = fn})
             IN IF summary.details[i].ok THEN nr = 1 /\ nt = 0 ELSE nr = 0 /\ nt = 1

(* C5: every batch run appends exactly one seal record, after the decision    *)
(* record of the last envelope; nothing is appended to the receipt or         *)
(* tombstone log after it, so its three hashes are those of the two logs as   *)
(* they stand (an absent log counting as empty).                              *)
SealOncePerRun ==
    /\ Seals # <<>> =>
          /\ Len(Seals) = 1
          /\ idx = Len(files)
          /\ Seals[1].json.receipts_sha256 = sha256_hex(Receipts)
          /\ Seals[1].json.tombstone_sha256 = sha256_hex(Tombs)
          /\ Seals[1].json.root_sha256 = sha256_hex(Receipts \o <<[nl |-> "\n"]>> \o Tombs)
    /\ RunEnded => Len(Seals) = 1

\* Both the run that just ended and the run before it reached the seal
TwoSealedRuns == pc = "done" /\ runs = 2 /\ seal_path \in DOMAIN prevOut

(* C9: two batch runs over the same vector files and anchors append their     *)
(* decision records in ascending file order and leave identical receipt and   *)
(* tombstone logs, hence identical hashes in the seal.                        *)
ReproducibleSeal ==
    TwoSealedRuns =>
       /\ \A i, j \in DOMAIN summary.details :
             i < j => summary.details[i].file < summary.details[j].file
       /\ Receipts = read_bytes(prevOut, receipts_path)
       /\ Tombs = read_bytes(prevOut, tomb_path)
       /\ Seals[1].json.receipts_sha256 = prevOut[seal_path][1].json.receipts_sha256
       /\ Seals[1].json.tombstone_sha256 = prevOut[seal_path][1].json.tombstone_sha256
       /\ Seals[1].json.root_sha256 = prevOut[seal_path][1].json.root_sha256

====
